---------------------------- MODULE Spec2Model ----------------------------
(***************************************************************************)
(* Model of src/app.py: the Zomato vs Swiggy news tracker.                 *)
(*                                                                         *)
(* One script run (a page run) is: optional cache clear (refresh button),  *)
(* build_dataset() behind a one-hour cache, which calls fetch_mentions()   *)
(* per brand behind its own one-hour cache, concatenates the frames,       *)
(* summarizes the first five headlines of each brand, and then the page    *)
(* computes the share of voice from the returned frame.                    *)
(***************************************************************************)
EXTENDS Integers, Sequences, FiniteSets, TLC

\* ------------------------------------------------------------------ bounds
\* The clock runs from StartClock to MaxClock in steps of Tick seconds.
StartClock == 82800
Tick == 1800
MaxClock == 88200
\* The refresh button is pressed at most MaxClears times in a behaviour.
MaxClears == 1

\* ------------------------------------------------------- program constants
BRANDS == <<"Zomato", "Swiggy">>
TTL == 3600
HeadRows == 5
SecondsPerDay == 86400
Latency == 30

Brands == {BRANDS[k] : k \in 1..Len(BRANDS)}

BrandIndex(b) == CHOOSE k \in 1..Len(BRANDS) : BRANDS[k] = b

\* ------------------------------------------------------------- JSON values
\* Python None / JSON null, a JSON string, and a title (a string kept as its
\* characters, because summarize_text strips it).
None == [none |-> TRUE]
Str(s) == [str |-> s]
Txt(cs) == [chars |-> cs]

\* dict.get(key) with the default None
Get(d, k) == IF k \in DOMAIN d THEN d[k] ELSE None

\* (a.get("source") or {}).get("name")
SourceName(a) ==
  LET s == Get(a, "source")
  IN  IF s = None THEN None ELSE Get(s, "name")

\* Articles the provider can return.
Article(u, t) ==
  [title |-> t, source |-> [name |-> Str("wire")], url |-> Str(u),
   publishedAt |-> Str("ts"), description |-> Str("d")]

ArtA == Article("u1", Txt(<<"a">>))
ArtNoTitle == [source |-> None, url |-> Str("u2")]
ArtB == Article("u3", Txt(<<"b">>))
ArtBlank == Article("u4", Txt(<<" ">>))
ArtC == Article("u5", Txt(<<"c", " ">>))
ArtD == Article("u6", Txt(<<"d">>))

\* JSON bodies of the provider's answer: an error object (no "articles"),
\* and article lists of length 0, 1, 3 and 6.
Payloads ==
  { [status |-> Str("error")],
    [status |-> Str("ok"), articles |-> <<>>],
    [status |-> Str("ok"), articles |-> <<ArtA>>],
    [status |-> Str("ok"), articles |-> <<ArtBlank, ArtNoTitle, ArtB>>],
    [status |-> Str("ok"),
     articles |-> <<ArtNoTitle, ArtA, ArtB, ArtBlank, ArtC, ArtD>>] }

\* What requests.get(url, timeout=30).json() can do: return a JSON body or
\* raise (provider unreachable / timeout, body that is not JSON).
RequestOutcomes ==
  {[ok |-> TRUE, json |-> p, error |-> ""] : p \in Payloads}
  \cup {[ok |-> FALSE, json |-> [status |-> Str("none")], error |-> e] :
          e \in {"ConnectionError", "JSONDecodeError"}}

\* What the summarization pipeline can do with a text: return a summary or
\* raise.
SummarizerOutcomes ==
  { [ok |-> TRUE, text |-> "summary", cause |-> ""],
    [ok |-> FALSE, text |-> "", cause |-> "model failure"] }

\* --------------------------------------------------------------- DataFrame
\* A frame is its set of columns and its rows in order.
EmptyFrame == [columns |-> {}, rows |-> <<>>]

RowColumns == {"brand", "title", "source", "url", "published", "snippet"}

\* pd.DataFrame(rows): a frame built from no rows has no columns.
DataFrame(rows) ==
  IF rows = <<>> THEN EmptyFrame ELSE [columns |-> RowColumns, rows |-> rows]

RECURSIVE ConcatRows(_)
ConcatRows(frames) ==
  IF frames = <<>> THEN <<>>
  ELSE Head(frames).rows \o ConcatRows(Tail(frames))

\* A concat that takes the frames last first.
RECURSIVE ConcatRowsReversed(_)
ConcatRowsReversed(frames) ==
  IF frames = <<>> THEN <<>>
  ELSE ConcatRowsReversed(Tail(frames)) \o Head(frames).rows

ConcatReversed(frames) ==
  [columns |-> UNION {frames[k].columns : k \in 1..Len(frames)},
   rows |-> ConcatRowsReversed(frames)]

\* pd.concat(dfs, ignore_index=True)
Concat(frames) ==
  [columns |-> UNION {frames[k].columns : k \in 1..Len(frames)},
   rows |-> ConcatRows(frames)]

\* df.head(n)
FirstN(s, n) == SubSeq(s, 1, IF Len(s) < n THEN Len(s) ELSE n)


\* ----------------------------------------------------------------- strings
Whitespace == {" "}

\* str.strip(): drop leading and trailing whitespace.
RECURSIVE LStrip(_)
LStrip(cs) ==
  IF cs # <<>> /\ Head(cs) \in Whitespace THEN LStrip(Tail(cs)) ELSE cs

RECURSIVE RStrip(_)
RStrip(cs) ==
  IF cs # <<>> /\ cs[Len(cs)] \in Whitespace
  THEN RStrip(SubSeq(cs, 1, Len(cs) - 1)) ELSE cs

Strip(cs) == RStrip(LStrip(cs))

\* " ".join(parts)
RECURSIVE Join(_)
Join(parts) ==
  IF parts = <<>> THEN <<>>
  ELSE IF Len(parts) = 1 THEN parts[1]
  ELSE parts[1] \o <<" ">> \o Join(Tail(parts))

NoMentions == "(no mentions)"
ErrorDigest(cause) == "(error during summarization: " \o cause \o ")"

\* A call's end: a returned value or a raised exception.
Return(v) == [raised |-> FALSE, value |-> v, error |-> ""]
Raise(e, v) == [raised |-> TRUE, value |-> v, error |-> e]

\* summarize_text without its except clause: the exception propagates.
SummarizeTextPropagating(text, outcome) ==
  IF Strip(text) = <<>> THEN Return(NoMentions)
  ELSE IF outcome.ok THEN Return(outcome.text)
  ELSE Raise(outcome.cause, NoMentions)

\* summarize_text(text), the summarizer doing `outcome` if it is called.
SummarizeText(text, outcome) ==
  IF Strip(text) = <<>> THEN Return(NoMentions)
  ELSE IF outcome.ok THEN Return(outcome.text)
  ELSE Return(ErrorDigest(outcome.cause))

\* ------------------------------------------------------------------ fetch
\* The rows fetch_mentions builds from the JSON body r, in the body's order.
RECURSIVE MentionRows(_, _)
MentionRows(brand, articles) ==
  IF articles = <<>> THEN <<>>
  ELSE LET a == Head(articles)
       IN  << [brand |-> brand,
               title |-> Get(a, "title"),
               source |-> SourceName(a),
               url |-> Get(a, "url"),
               published |-> Get(a, "publishedAt"),
               snippet |-> Get(a, "description")] >>
           \o MentionRows(brand, Tail(articles))

\* r.get("articles", [])
ArticlesOf(r) == IF "articles" \in DOMAIN r THEN r.articles ELSE <<>>

\* The body of fetch_mentions(brand, start_date, end_date): no request without
\* an API key; otherwise one request, whose failure propagates.
FetchBody(brand, key, outcome) ==
  IF ~key THEN Return(EmptyFrame)
  ELSE IF ~outcome.ok THEN Raise(outcome.error, EmptyFrame)
  ELSE Return(DataFrame(MentionRows(brand, ArticlesOf(outcome.json))))

\* ---------------------------------------------------------------- caching
\* datetime.utcnow().date(), as a day number.
Today(t) == t \div SecondsPerDay

\* The arguments of fetch_mentions in build_dataset: (b, start_s, end_s).
FetchKey(b, end) == <<b, end - 1, end>>
BuildKey == <<>>

\* Fresh with the comparison off by one: an entry exactly ttl old is served.
FreshInclusive(e, t) == t - e.fetchedAt <= TTL

\* st.cache_data(ttl=60*60): an entry is served while it is younger than ttl.
Fresh(e, t) == t - e.fetchedAt < TTL

\* A lookup without expiry: an entry is served whatever its age.
LookupAnyAge(cache, key, t) == {e \in cache : e.key = key}

Lookup(cache, key, t) == {e \in cache : e.key = key /\ Fresh(e, t)}

\* A write replaces the key's entry; expired entries are dropped.
Store(cache, key, value, src, t) ==
  {e \in cache : e.key # key /\ Fresh(e, t)}
  \cup {[key |-> key, value |-> value, fetchedAt |-> t, src |-> src]}

\* A clear that leaves the entries in place.
KeptOnClear(cache) == cache

\* st.cache_data.clear()
Cleared(cache) == {}

\* ------------------------------------------------------------ build_dataset
\* df[df["brand"] == b].head(5)
Subset(df, b) == FirstN(SelectSeq(df.rows, LAMBDA r : r.brand = b), HeadRows)

\* subset["title"].dropna().tolist()
RECURSIVE TitlesOf(_)
TitlesOf(rows) ==
  IF rows = <<>> THEN <<>>
  ELSE IF Head(rows).title = None THEN TitlesOf(Tail(rows))
  ELSE <<Head(rows).title.chars>> \o TitlesOf(Tail(rows))

\* One turn of the summaries loop for brand b.
SummaryFor(df, b, outcome) ==
  IF "brand" \notin df.columns THEN Raise("KeyError", NoMentions)
  ELSE SummarizeText(Join(TitlesOf(Subset(df, b))), outcome)


\* ---------------------------------------------------------- share of voice
\* groupby("brand") lists the groups that occur, keys sorted as strings.
GroupOrder == <<"Swiggy", "Zomato">>

CountOf(rows, b) == Len(SelectSeq(rows, LAMBDA r : r.brand = b))

\* mentions_df.groupby("brand").size()
RECURSIVE GroupSizes(_, _)
GroupSizes(rows, keys) ==
  IF keys = <<>> THEN <<>>
  ELSE (IF CountOf(rows, Head(keys)) > 0
        THEN <<[brand |-> Head(keys), count |-> CountOf(rows, Head(keys))]>>
        ELSE <<>>)
       \o GroupSizes(rows, Tail(keys))

\* Where x goes into the descending sequence s: after every element that is
\* not smaller (equal counts keep their order).
RECURSIVE InsertDesc(_, _)
InsertDesc(s, x) ==
  IF s = <<>> THEN <<x>>
  ELSE IF Head(s).count >= x.count THEN <<Head(s)>> \o InsertDesc(Tail(s), x)
  ELSE <<x>> \o s

\* Series.sort_values(ascending=False)
RECURSIVE SortDesc(_)
SortDesc(s) ==
  IF s = <<>> THEN <<>>
  ELSE InsertDesc(SortDesc(SubSeq(s, 1, Len(s) - 1)), s[Len(s)])

RECURSIVE SumCounts(_)
SumCounts(s) == IF s = <<>> THEN 0 ELSE Head(s).count + SumCounts(Tail(s))

\* (count / total * 100).round(1), in tenths of a percent; a value half way
\* between two tenths goes to the even one.
RoundedPct(count, total) ==
  LET q == (1000 * count) \div total
      r == (1000 * count) % total
  IN  IF 2 * r > total THEN q + 1
      ELSE IF 2 * r < total THEN q
      ELSE IF q % 2 = 0 THEN q ELSE q + 1

RECURSIVE PctOf(_, _)
PctOf(s, total) ==
  IF s = <<>> THEN <<>>
  ELSE <<[brand |-> Head(s).brand, pct10 |-> RoundedPct(Head(s).count, total)]>>
       \o PctOf(Tail(s), total)

NoView == [shown |-> FALSE, total |-> 0, sov |-> <<>>, top |-> "", sov_pct |-> <<>>]

\* What the page shows for a returned frame: the total, and for a frame that
\* is not empty the share of voice, its first index and the percentages.
PageView(mentions) ==
  IF mentions.rows = <<>>
  THEN [NoView EXCEPT !.shown = TRUE]
  ELSE LET sov == SortDesc(GroupSizes(mentions.rows, GroupOrder))
       IN  [shown |-> TRUE, total |-> Len(mentions.rows), sov |-> sov,
            top |-> sov[1].brand, sov_pct |-> PctOf(sov, SumCounts(sov))]


\* -------------------------------------------------------------------- state
VARIABLES
  now,         \* the clock, in seconds
  apiKey,      \* whether NEWSAPI_KEY is set
  fetchCache,  \* the entries of fetch_mentions' cache
  buildCache,  \* the entries of build_dataset's cache
  generation,  \* how often the caches were cleared
  pc,          \* where the script run is: idle, fetch, summarize, render
  clicked,     \* whether this run's refresh button was pressed
  end,         \* build_dataset's `end` date
  i,           \* the brand the running loop is at
  dfs,         \* build_dataset's `dfs`
  srcs,        \* for each frame of dfs, where it came from
  df,          \* build_dataset's `df`
  summaries,   \* build_dataset's `summaries`
  result,      \* what build_dataset() returned to the page
  view,        \* what the page shows
  status,      \* how the last script run ended: none, rendered, raised
  error,       \* the exception of a run that raised
  lastFetch,   \* the last fetch_mentions call: none, hit, miss
  lastBuild    \* the last build_dataset call: none, hit, miss

vars == <<now, apiKey, fetchCache, buildCache, generation, pc, clicked, end, i,
          dfs, srcs, df, summaries, result, view, status, error, lastFetch,
          lastBuild>>

NoResult ==
  [returned |-> FALSE, mentions |-> EmptyFrame, summaries |-> <<>>,
   srcs |-> <<>>, builtAt |-> 0, returnedAt |-> 0]

Init ==
  /\ now = StartClock
  /\ apiKey \in BOOLEAN
  /\ fetchCache = {}
  /\ buildCache = {}
  /\ generation = 0
  /\ pc = "idle"
  /\ clicked = FALSE
  /\ end = Today(StartClock)
  /\ i = 0
  /\ dfs = <<>>
  /\ srcs = <<>>
  /\ df = EmptyFrame
  /\ summaries = <<>>
  /\ result = NoResult
  /\ view = NoView
  /\ status = "none"
  /\ error = ""
  /\ lastFetch = "none"
  /\ lastBuild = "none"

\* How far the clock is past the last whole step since StartClock.
Offset(t) == (t - StartClock) % Tick

\* Time passes between script runs: a whole step, or up to the next one.
Advance(d) ==
  /\ pc = "idle"
  /\ now + d <= MaxClock
  /\ now' = now + d
  /\ UNCHANGED <<apiKey, fetchCache, buildCache, generation, pc, clicked, end,
                 i, dfs, srcs, df, summaries, result, view, status, error,
                 lastFetch, lastBuild>>

\* Time passes inside a run, while build_dataset waits for the provider
\* (requests.get(url, timeout=30)) or for the summarizer; at most once
\* between two whole steps of the clock.
Wait ==
  /\ pc \in {"fetch", "summarize"}
  /\ Offset(now) = 0
  /\ now + Latency <= MaxClock
  /\ now' = now + Latency
  /\ UNCHANGED <<apiKey, fetchCache, buildCache, generation, pc, clicked, end,
                 i, dfs, srcs, df, summaries, result, view, status, error,
                 lastFetch, lastBuild>>

\* A script run starts: the refresh button clears the caches, then
\* build_dataset() is called and either served from its cache or started.
Rerun(click) ==
  /\ pc = "idle"
  /\ click => generation < MaxClears
  /\ LET fc == IF click THEN Cleared(fetchCache) ELSE fetchCache
         bc == IF click THEN Cleared(buildCache) ELSE buildCache
         hit == Lookup(bc, BuildKey, now)
     IN  /\ fetchCache' = fc
         /\ buildCache' = bc
         /\ generation' = IF click THEN generation + 1 ELSE generation
         /\ clicked' = click
         /\ IF hit # {}
            THEN LET e == CHOOSE x \in hit : TRUE
                 IN  /\ result' = [returned |-> TRUE,
                                   mentions |-> e.value.mentions,
                                   summaries |-> e.value.summaries,
                                   srcs |-> e.src, builtAt |-> e.fetchedAt,
                                   returnedAt |-> now]
                     /\ pc' = "render"
                     /\ lastBuild' = "hit"
                     /\ i' = 0
                     /\ end' = end
            ELSE /\ result' = NoResult
                 /\ pc' = "fetch"
                 /\ lastBuild' = "miss"
                 /\ i' = 1
                 /\ end' = Today(now)
  /\ dfs' = <<>>
  /\ srcs' = <<>>
  /\ df' = EmptyFrame
  /\ summaries' = <<>>
  /\ view' = NoView
  /\ status' = "none"
  /\ error' = ""
  /\ lastFetch' = "none"
  /\ UNCHANGED <<now, apiKey>>

\* The run ends with an exception.
Fails(e) ==
  /\ pc' = "idle"
  /\ status' = "raised"
  /\ error' = e
  /\ i' = 0

\* dfs gets one more frame; after the last brand's, df is their concat.
Collected(frame, src) ==
  LET all == Append(dfs, frame)
  IN  /\ srcs' = Append(srcs, src)
      /\ IF i = Len(BRANDS)
         THEN /\ df' = Concat(all)
              /\ dfs' = <<>>
              /\ pc' = "summarize"
              /\ i' = 1
         ELSE /\ df' = df
              /\ dfs' = all
              /\ pc' = pc
              /\ i' = i + 1
      /\ UNCHANGED <<status, error>>

\* fetch_mentions(BRANDS[i], start_s, end_s) is served from its cache.
FetchCached ==
  /\ pc = "fetch"
  /\ LET hit == Lookup(fetchCache, FetchKey(BRANDS[i], end), now)
     IN  /\ hit # {}
         /\ LET e == CHOOSE x \in hit : TRUE
            IN  Collected(e.value, [e.src EXCEPT !.readAt = now,
                                                 !.cached = TRUE])
  /\ lastFetch' = "hit"
  /\ UNCHANGED <<now, apiKey, fetchCache, buildCache, generation, clicked, end,
                 summaries, result, view, lastBuild>>

\* fetch_mentions(BRANDS[i], start_s, end_s) runs its body; the request, if
\* one is made, ends as `outcome`.
FetchComputed(outcome) ==
  /\ pc = "fetch"
  /\ Lookup(fetchCache, FetchKey(BRANDS[i], end), now) = {}
  /\ LET r == FetchBody(BRANDS[i], apiKey, outcome)
         src == [requested |-> apiKey, fetchedAt |-> now, readAt |-> now,
                 cached |-> FALSE, gen |-> generation,
                 articles |-> IF apiKey THEN ArticlesOf(outcome.json) ELSE <<>>]
     IN  IF r.raised
         THEN /\ Fails(r.error)
              /\ UNCHANGED <<fetchCache, dfs, srcs, df>>
         ELSE /\ fetchCache' = Store(fetchCache, FetchKey(BRANDS[i], end),
                                     r.value, src, now)
              /\ Collected(r.value, src)
  /\ lastFetch' = "miss"
  /\ UNCHANGED <<now, apiKey, buildCache, generation, clicked, end, summaries,
                 result, view, lastBuild>>

\* One turn of the summaries loop; after the last brand's, build_dataset
\* returns (df, summary_df), which its cache stores.
Summarize(outcome) ==
  /\ pc = "summarize"
  /\ LET b == BRANDS[i]
         r == SummaryFor(df, b, outcome)
         called == "brand" \in df.columns
                   /\ Strip(Join(TitlesOf(Subset(df, b)))) # <<>>
         all == Append(summaries,
                       [brand |-> b, summary |-> r.value,
                        capability |-> IF ~called THEN "not called"
                                       ELSE IF outcome.ok THEN "returned"
                                       ELSE "raised"])
     IN  IF r.raised
         THEN /\ Fails(r.error)
              /\ UNCHANGED <<summaries, buildCache, result>>
         ELSE /\ summaries' = all
              /\ UNCHANGED <<status, error>>
              /\ IF i = Len(BRANDS)
                 THEN /\ buildCache' =
                           Store(buildCache, BuildKey,
                                 [mentions |-> df, summaries |-> all], srcs, now)
                      /\ result' = [returned |-> TRUE, mentions |-> df,
                                    summaries |-> all, srcs |-> srcs,
                                    builtAt |-> now, returnedAt |-> now]
                      /\ pc' = "render"
                      /\ i' = 0
                 ELSE /\ UNCHANGED <<buildCache, result>>
                      /\ pc' = pc
                      /\ i' = i + 1
  /\ UNCHANGED <<now, apiKey, fetchCache, generation, clicked, end, dfs, srcs,
                 df, view, lastFetch, lastBuild>>

\* The page shows the metrics, the share of voice and the summaries.
Render ==
  /\ pc = "render"
  /\ view' = PageView(result.mentions)
  /\ pc' = "idle"
  /\ status' = "rendered"
  /\ UNCHANGED <<now, apiKey, fetchCache, buildCache, generation, clicked, end,
                 i, dfs, srcs, df, summaries, result, error, lastFetch,
                 lastBuild>>

Next ==
  \/ \E d \in {Tick, Tick - Offset(now)} : Advance(d)
  \/ Wait
  \/ \E click \in BOOLEAN : Rerun(click)
  \/ FetchCached
  \/ \E outcome \in RequestOutcomes : FetchComputed(outcome)
  \/ \E outcome \in SummarizerOutcomes : Summarize(outcome)
  \/ Render

Spec == Init /\ [][Next]_vars


\* ------------------------------------------------------------------ claims
RequestErrors == {o.error : o \in {x \in RequestOutcomes : ~x.ok}}
SummarizerCauses == {o.cause : o \in {x \in SummarizerOutcomes : ~x.ok}}

\* C1: no script run fails because one brand's fetch failed (the failing
\* brand would contribute no mentions and the build would still return).
C1_FetchFailureIsolated ==
  status = "raised" => error \notin RequestErrors

\* C2: a build whose every brand fetch gave zero mentions completes and
\* returns an empty mention collection and one "(no mentions)" digest per
\* brand, in BRANDS order.
C2_AllEmptyBuildReturns ==
  (pc = "idle" /\ status # "none" /\ Len(srcs) = Len(BRANDS) /\ df.rows = <<>>)
    => /\ status = "rendered"
       /\ result.returned
       /\ result.mentions.rows = <<>>
       /\ Len(result.summaries) = Len(BRANDS)
       /\ \A k \in 1..Len(result.summaries) :
            /\ result.summaries[k].brand = BRANDS[k]
            /\ result.summaries[k].summary = NoMentions

\* A fetch_mentions call is made in this step.
FetchCall == pc = "fetch" /\ (i' # i \/ pc' # pc)

\* A build_dataset call is made in this step, with no clear before it.
BuildCall == pc = "idle" /\ pc' # "idle" /\ ~clicked'

\* The frame the fetch_mentions call of this step handed to build_dataset.
FetchedFrame(frame) ==
  IF i = Len(BRANDS) THEN df' = Concat(Append(dfs, frame))
  ELSE dfs' = Append(dfs, frame)

\* C3: a cached call made while its key has an entry younger than TTL returns
\* the stored value without running the producer; otherwise the producer
\* runs and its result is stored with fetchedAt = now.
C3_TTLMemoization ==
  [][ /\ FetchCall =>
           LET key == FetchKey(BRANDS[i], end)
               young == {e \in fetchCache :
                           e.key = key /\ now - e.fetchedAt < TTL}
           IN  IF young # {}
               THEN /\ lastFetch' = "hit"
                    /\ fetchCache' = fetchCache
                    /\ status' # "raised"
                    /\ \E e \in young : FetchedFrame(e.value)
               ELSE /\ lastFetch' = "miss"
                    /\ status' # "raised" =>
                         \E e \in fetchCache' :
                           /\ e.key = key
                           /\ e.fetchedAt = now
                           /\ FetchedFrame(e.value)
      /\ BuildCall =>
           LET young == {e \in buildCache : now - e.fetchedAt < TTL}
           IN  IF young # {}
               THEN /\ lastBuild' = "hit"
                    /\ buildCache' = buildCache
                    /\ pc' = "render"
                    /\ \E e \in young :
                         /\ result'.mentions = e.value.mentions
                         /\ result'.summaries = e.value.summaries
               ELSE /\ lastBuild' = "miss"
                    /\ pc' = "fetch"
      /\ (pc = "summarize" /\ pc' = "render") =>
           \E e \in buildCache' :
             /\ e.fetchedAt = now
             /\ e.value.mentions = result'.mentions
             /\ e.value.summaries = result'.summaries
    ]_vars

\* A fetch_mentions call was served an entry stored earlier, while
\* build_dataset itself had to run.
C3_Witness ==
  /\ lastFetch = "hit"
  /\ lastBuild = "miss"
  /\ srcs # <<>>
  /\ srcs[Len(srcs)].fetchedAt < now


\* C4: a result returned to the page holds, for every brand, only data
\* fetched since the last clear, and a refreshed run recomputes everything; a
\* run without the refresh button clears nothing and is served build_dataset's
\* entry whenever that is younger than TTL.
C4_RefreshRecomputes ==
  /\ [](result.returned =>
          /\ Len(result.srcs) = Len(BRANDS)
          /\ \A k \in 1..Len(result.srcs) : result.srcs[k].gen = generation
          /\ clicked => /\ lastBuild = "miss"
                        /\ \A k \in 1..Len(result.srcs) :
                             ~result.srcs[k].cached)
  /\ [][ BuildCall =>
           /\ fetchCache' = fetchCache
           /\ buildCache' = buildCache
           /\ generation' = generation
           /\ (\E e \in buildCache : now - e.fetchedAt < TTL) =>
                /\ result'.returned
                /\ \E e \in buildCache :
                     /\ result'.mentions = e.value.mentions
                     /\ result'.summaries = e.value.summaries
       ]_vars

\* A run with the refresh button pressed returned a result at the first clock
\* value, where every entry a clear can remove is still younger than TTL.
C4_Witness ==
  /\ pc = "render"
  /\ clicked
  /\ generation > 0
  /\ result.returned
  /\ now = StartClock

\* The url column of some rows, and the urls of some articles.
RowUrls(rows) == [k \in 1..Len(rows) |-> rows[k].url]
ArticleUrls(articles) == [k \in 1..Len(articles) |-> Get(articles[k], "url")]

\* C5: in a returned mention collection the brands come in BRANDS order, a
\* brand's mentions are the provider's articles in the provider's order, and
\* every mention's brand is one of BRANDS.
C5_BrandMajorOrder ==
  result.returned =>
    LET rows == result.mentions.rows
    IN  /\ \A p, q \in 1..Len(rows) :
             p < q => BrandIndex(rows[p].brand) <= BrandIndex(rows[q].brand)
        /\ \A p \in 1..Len(rows) : rows[p].brand \in Brands
        /\ \A k \in 1..Len(BRANDS) :
             RowUrls(SelectSeq(rows, LAMBDA r : r.brand = BRANDS[k]))
               = ArticleUrls(result.srcs[k].articles)

\* Both brands have several mentions, the first brand's from the cache and
\* the second brand's from a request.
C5_Witness ==
  /\ result.returned
  /\ \A k \in 1..Len(BRANDS) : CountOf(result.mentions.rows, BRANDS[k]) > 1
  /\ result.srcs[1].cached
  /\ ~result.srcs[2].cached

\* C6: a summarizer that raises gives the digest "(error during
\* summarization: <cause>)" and fails no run; every returned result has one
\* digest per brand, in BRANDS order, each decided by its own brand's text and
\* summarizer call alone.
C6_SummarizationFailureNonFatal ==
  /\ status = "raised" => error \notin SummarizerCauses
  /\ result.returned =>
       /\ Len(result.summaries) = Len(BRANDS)
       /\ \A k \in 1..Len(result.summaries) :
            LET d == result.summaries[k]
            IN  /\ d.brand = BRANDS[k]
                /\ d.capability = "raised" =>
                     d.summary \in {ErrorDigest(c) : c \in SummarizerCauses}
                /\ d.capability = "returned" =>
                     d.summary \in {o.text : o \in {x \in SummarizerOutcomes : x.ok}}
                /\ d.capability = "not called" => d.summary = NoMentions

\* The summarizer raised for the first brand and returned for the second.
C6_Witness ==
  /\ result.returned
  /\ result.summaries[1].capability = "raised"
  /\ result.summaries[2].capability = "returned"


\* The first brand of BRANDS whose count in rows no brand exceeds.
FirstHighest(rows) ==
  LET best == {k \in 1..Len(BRANDS) :
                 \A m \in 1..Len(BRANDS) :
                   CountOf(rows, BRANDS[m]) <= CountOf(rows, BRANDS[k])}
  IN  BRANDS[CHOOSE k \in best : \A m \in best : k <= m]

\* C7: the top share of voice is the brand with the highest count, and among
\* brands with equal counts the first in BRANDS order.
C7_TopIsFirstHighest ==
  (status = "rendered" /\ result.mentions.rows # <<>>)
    => view.top = FirstHighest(result.mentions.rows)

\* 100 * count / total rounded to one decimal, in tenths of a percent.
ReferencePct(count, total) ==
  IF total = 0 THEN 0 ELSE (2000 * count + total) \div (2 * total)

\* C8: the share of voice has an entry for every brand of BRANDS, with the
\* brand's number of mentions (0 if it has none) and its rounded percentage.
C8_ShareOfVoiceReference ==
  status = "rendered" =>
    LET rows == result.mentions.rows
    IN  \A b \in Brands :
          /\ \E k \in 1..Len(view.sov) :
               /\ view.sov[k].brand = b
               /\ view.sov[k].count = CountOf(rows, b)
          /\ \E k \in 1..Len(view.sov_pct) :
               /\ view.sov_pct[k].brand = b
               /\ view.sov_pct[k].pct10 = ReferencePct(CountOf(rows, b), Len(rows))

\* C10 as claimed: every brand's mentions in a returned result were fetched
\* less than one TTL before the return.
C10_FetchedWithinOneTTL ==
  result.returned =>
    \A k \in 1..Len(result.srcs) :
      result.returnedAt - result.srcs[k].fetchedAt < TTL

\* C10 as amended: a returned result was built less than one TTL before the
\* return, and each brand's mentions were fetched less than one TTL before
\* the build read them.
C10_EachCacheWithinOneTTL ==
  result.returned =>
    /\ Len(result.srcs) = Len(BRANDS)
    /\ 0 <= result.returnedAt - result.builtAt
    /\ result.returnedAt - result.builtAt < TTL
    /\ \A k \in 1..Len(result.srcs) :
         /\ 0 <= result.srcs[k].readAt - result.srcs[k].fetchedAt
         /\ result.srcs[k].readAt - result.srcs[k].fetchedAt < TTL
         /\ result.srcs[k].readAt <= result.builtAt

\* build_dataset's cache served a result holding mentions that were fetched
\* one TTL or more before.
C10_Witness ==
  /\ result.returned
  /\ lastBuild = "hit"
  /\ \E k \in 1..Len(result.srcs) :
       /\ result.srcs[k].requested
       /\ result.returnedAt - result.srcs[k].fetchedAt >= TTL

=============================================================================
